---- MODULE Spec2Model ----
(***************************************************************************)
(* GlassWindow API (src/main.py): a FastAPI application with six routes.   *)
(*                                                                         *)
(* Representation.  A Python str that the code transforms (query, mode,    *)
(* summary, exception messages) is a sequence of one-character strings, so *)
(* strip(), lower(), slicing and f-string interpolation are computed.  A   *)
(* str the code only passes along (labels, key points, ids) is a TLA+      *)
(* string.  The emoji that start the /test labels are written in ASCII:    *)
(* "[ok]" for the check mark, "[x]" for the cross, "[!]" for the warning   *)
(* sign.  A float is the integer of its last printed digit: 0.72 is 72     *)
(* hundredths, 2.4 is 24 tenths.                                           *)
(***************************************************************************)
EXTENDS Integers, Sequences, FiniteSets, TLC

VARIABLES environ,      \* os.environ: the two variables /test looks at
          database,     \* what `from database import db` finds outside the process
          sys_modules,  \* TRUE once the interpreter has cached module `database`
          clock,        \* the last instant datetime.utcnow() returned
          conn,         \* per worker thread: position, request and result
          response      \* the dict `response` of each running test_database call

vars == <<environ, database, sys_modules, clock, conn, response>>

(***************************************************************************)
(* Bounds of the model.                                                    *)
(***************************************************************************)
MaxQueryLen == 5        \* longest generated query
MaxCollections == 12    \* longest list list_collection_names() returns
MaxExtra == 3           \* longest exception message is TRUNCATE + MaxExtra
MaxClock == 2           \* instants utcnow() can return: 0..MaxClock

Workers == {1, 2}       \* threads of the server's pool that run the handlers

(***************************************************************************)
(* Text.                                                                   *)
(***************************************************************************)
Whitespace == {" ", "\t", "\n"}

UPPERCASE ==
  <<"A", "B", "C", "D", "E", "F", "G", "H", "I", "J", "K", "L", "M",
    "N", "O", "P", "Q", "R", "S", "T", "U", "V", "W", "X", "Y", "Z">>

LOWERCASE ==
  <<"a", "b", "c", "d", "e", "f", "g", "h", "i", "j", "k", "l", "m",
    "n", "o", "p", "q", "r", "s", "t", "u", "v", "w", "x", "y", "z">>

\* str.lower() on one character
lower_char(c) ==
  IF \E i \in 1..Len(UPPERCASE) : UPPERCASE[i] = c
  THEN LOWERCASE[CHOOSE i \in 1..Len(UPPERCASE) : UPPERCASE[i] = c]
  ELSE c

\* str.lower()
lower(s) == [i \in 1..Len(s) |-> lower_char(s[i])]

RECURSIVE lstrip(_)
\* str.lstrip(): drop whitespace from the front, one character at a time
lstrip(s) ==
  IF s # <<>> /\ Head(s) \in Whitespace THEN lstrip(Tail(s)) ELSE s

RECURSIVE rstrip(_)
\* str.rstrip(): drop whitespace from the back
rstrip(s) ==
  IF s # <<>> /\ s[Len(s)] \in Whitespace
  THEN rstrip(SubSeq(s, 1, Len(s) - 1))
  ELSE s

\* str.strip()
strip(s) == rstrip(lstrip(s))

\* s[:n] for n >= 0
slice_to(s, n) == SubSeq(s, 1, IF Len(s) < n THEN Len(s) ELSE n)

(***************************************************************************)
(* POST /api/explain.                                                      *)
(***************************************************************************)
EXPERT == <<"e", "x", "p", "e", "r", "t">>
BEGINNER == <<"b", "e", "g", "i", "n", "n", "e", "r">>
STYLE_EXPERT == <<"E", "x", "p", "e", "r", "t">>
STYLE_BEGINNER == <<"B", "e", "g", "i", "n", "n", "e", "r">>
VIEW == <<" ", "v", "i", "e", "w", ":", " ">>
LIKELY ==
  <<" ", "l", "i", "k", "e", "l", "y", " ", "d", "r", "i", "v", "e", "n",
    " ", "b", "y", " ", "l", "i", "q", "u", "i", "d", "i", "t", "y", " ",
    "r", "o", "t", "a", "t", "i", "o", "n", ",", " ", "m", "a", "c", "r",
    "o", " ", "r", "i", "s", "k", " ", "a", "p", "p", "e", "t", "i", "t",
    "e", ",", " ", "a", "n", "d", " ", "e", "x", "c", "h", "a", "n", "g",
    "e", " ", "f", "l", "o", "w", " ", "d", "y", "n", "a", "m", "i", "c",
    "s", ".">>

\* The JSON body of a request.  has_mode = FALSE: the body has no "mode".
NoBody == [query |-> <<>>, mode |-> <<>>, has_mode |-> FALSE]

\* class ExplainRequest: query is required, mode defaults to "expert"
ExplainRequest(body) ==
  [query |-> body.query,
   mode  |-> IF body.has_mode THEN body.mode ELSE EXPERT]

\* class ExplainResponse
ExplainResponse(mode, summary, key_points, confidence, sources) ==
  [mode |-> mode, summary |-> summary, key_points |-> key_points,
   confidence |-> confidence, sources |-> sources]

\* raise HTTPException(status_code, detail)
HTTPException(status_code, detail) ==
  [status |-> status_code, detail |-> detail]

\* a handler's return value, sent with status 200
OK(payload) == [status |-> 200, body |-> payload]

\* too_short with the strip() forgotten
too_short_unstripped(req) == req.query = <<>> \/ Len(req.query) < 3

\* too_short with <= for <
too_short_off_by_one(req) == req.query = <<>> \/ Len(strip(req.query)) <= 3

\* if not req.query or len(req.query.strip()) < 3
too_short(req) == req.query = <<>> \/ Len(strip(req.query)) < 3

\* style_of with the lower() forgotten
style_case_sensitive(req) ==
  IF req.mode = BEGINNER THEN STYLE_BEGINNER ELSE STYLE_EXPERT

\* style = "Beginner" if req.mode.lower() == "beginner" else "Expert"
style_of(req) ==
  IF lower(req.mode) = BEGINNER THEN STYLE_BEGINNER ELSE STYLE_EXPERT

\* summary_of interpolating the query as sent
summary_unstripped(style, req) == style \o VIEW \o req.query \o LIKELY

\* f"{style} view: {req.query.strip()} likely driven by ..."
summary_of(style, req) == style \o VIEW \o strip(req.query) \o LIKELY

points ==
  <<"Price action concentrated around key liquidity zones",
    "Funding rates normalizing after recent spikes",
    "Net exchange outflows suggest accumulation",
    "Derivatives skew implies moderate upside bias">>

sources ==
  <<"CeFi spot feeds", "On-chain exchange flows", "Derivatives funding + OI">>

\* def explain(req): what the call returns or raises
explain_result(req) ==
  IF too_short(req)
  THEN HTTPException(400, "Query is too short")
  ELSE LET style == style_of(req) IN
       OK(ExplainResponse(lower(style), summary_of(style, req), points,
                          72, sources))

(***************************************************************************)
(* GET /test.                                                              *)
(***************************************************************************)
TRUNCATE == 50          \* str(e)[:50]
LIMIT == 10             \* collections[:10]

\* A label is a text of one fragment; an f-string appends the characters
\* of its interpolated value.
label(s) == <<s>>

fstring(prefix, chars) == <<prefix>> \o chars

\* An exception the outside world can raise: its class as the except
\* clauses tell them apart, and str(e).
NoError == [type |-> "none", msg |-> <<>>]

\* str(e) of length n: the digits 1, 2, ..., 9, 0, 1, ...
Msg(n) == [i \in 1..n |-> ToString(i % 10)]

\* os.getenv(key) as a truth value: set, and not the empty string
getenv_truthy(env, key) == env[key].set /\ env[key].value # <<>>

\* response = {...}: the dict a call starts with
initial_response ==
  [backend |-> label("[ok] Running"),
   database |-> label("[x] Not Available"),
   database_url |-> label("None"),
   database_name |-> label("None"),
   connection_status |-> label("Not Connected"),
   collections |-> <<>>]

\* The outcome of a piece of the try block: the dict, the exception that
\* left the piece (NoError when none did), and whether the try block goes on.
Outcome(r, raised, more) == [response |-> r, raised |-> raised, more |-> more]

\* from database import db
import_db(r, db) ==
  IF db.kind = "import_raises"
  THEN Outcome(r, db.import_error, FALSE)
  ELSE Outcome(r, NoError, TRUE)

\* hasattr(db, 'name'): AttributeError means the attribute is absent, any
\* other exception leaves hasattr
read_name(r, db) ==
  CASE db.name = "raises"  -> Outcome(r, db.name_error, FALSE)
    [] db.name = "present" ->
         Outcome([r EXCEPT !.database_name = <<db.name_value>>], NoError, TRUE)
    [] OTHER ->
         Outcome([r EXCEPT !.database_name = label("[ok] Connected")],
                 NoError, TRUE)

\* if db is not None: ... else: ...   (up to the inner try)
check_db(r, db) ==
  IF db.kind = "handle"
  THEN LET r1 == [r EXCEPT !.database = label("[ok] Available"),
                           !.database_url = label("[ok] Configured")]
           o  == read_name(r1, db)
       IN IF o.raised # NoError
          THEN o
          ELSE Outcome([o.response EXCEPT
                          !.connection_status = label("Connected")],
                       NoError, TRUE)
  ELSE Outcome([r EXCEPT
                  !.database = label("[!]  Available but not initialized")],
               NoError, FALSE)

\* list_collections with the [:10] forgotten
list_unlimited(r, db) ==
  IF db.listing = "raises"
  THEN Outcome([r EXCEPT !.database =
                  fstring("[!]  Connected but Error: ",
                          slice_to(db.list_error.msg, TRUNCATE))],
               NoError, FALSE)
  ELSE Outcome([r EXCEPT !.collections = db.names,
                         !.database = label("[ok] Connected & Working")],
               NoError, FALSE)

\* the inner try: list_collection_names(), collections[:10], except Exception
list_collections(r, db) ==
  IF db.listing = "raises"
  THEN Outcome([r EXCEPT !.database =
                  fstring("[!]  Connected but Error: ",
                          slice_to(db.list_error.msg, TRUNCATE))],
               NoError, FALSE)
  ELSE Outcome([r EXCEPT !.collections = slice_to(db.names, LIMIT),
                         !.database = label("[ok] Connected & Working")],
               NoError, FALSE)

\* except_clauses with only the ImportError clause
except_import_error_only(o) ==
  IF o.raised.type = "ImportError"
  THEN Outcome([o.response EXCEPT !.database =
         label("[x] Database module not found (run enable-database first)")],
               NoError, FALSE)
  ELSE o

\* except ImportError: ... except Exception as e: ...
except_clauses(o) ==
  CASE o.raised.type = "none" -> o
    [] o.raised.type = "ImportError" ->
         Outcome([o.response EXCEPT !.database =
           label("[x] Database module not found (run enable-database first)")],
                 NoError, FALSE)
    [] OTHER ->
         Outcome([o.response EXCEPT !.database =
                    fstring("[x] Error: ", slice_to(o.raised.msg, TRUNCATE))],
                 NoError, FALSE)

\* env_fields writing "Not Set" only over a field still None
env_keeps_handle_values(r, env) ==
  [r EXCEPT
     !.database_url =
        IF getenv_truthy(env, "DATABASE_URL")
        THEN label("[ok] Set")
        ELSE IF r.database_url = label("None")
             THEN label("[x] Not Set") ELSE r.database_url,
     !.database_name =
        IF getenv_truthy(env, "DATABASE_NAME")
        THEN label("[ok] Set")
        ELSE IF r.database_name = label("None")
             THEN label("[x] Not Set") ELSE r.database_name]

\* response["database_url"] = ...; response["database_name"] = ...
env_fields(r, env) ==
  [r EXCEPT
     !.database_url =
        IF getenv_truthy(env, "DATABASE_URL")
        THEN label("[ok] Set") ELSE label("[x] Not Set"),
     !.database_name =
        IF getenv_truthy(env, "DATABASE_NAME")
        THEN label("[ok] Set") ELSE label("[x] Not Set")]


\* def test_database(): the whole call, from a dict of its own
test_database_result(env, db) ==
  LET o1 == except_clauses(import_db(initial_response, db))
      o2 == IF o1.more THEN except_clauses(check_db(o1.response, db)) ELSE o1
      o3 == IF o2.more THEN except_clauses(list_collections(o2.response, db))
            ELSE o2
  IN OK(env_fields(o3.response, env))

(***************************************************************************)
(* GET /, GET /api/hello, GET /api/market/overview, GET /api/reports.      *)
(***************************************************************************)
\* datetime.utcnow().isoformat() + "Z": the instant's rendering, then "Z"
isoformat_z(now) == <<now, "Z">>

\* def read_root()
read_root_result == OK([service |-> "GlassWindow Backend", status |-> "ok"])

\* def hello()
hello_result == OK([message |-> "Hello from the backend API!"])

Asset(symbol, change24h, marketCap) ==
  [symbol |-> symbol, change24h |-> change24h, marketCap |-> marketCap]

Sector(name, change24h, volume, assets) ==
  [name |-> name, change24h |-> change24h, volume |-> volume,
   assets |-> assets]

HeatmapPoint(id, value) == [id |-> id, value |-> value]

\* sectors = [...]: change24h in tenths, volume and marketCap in millions
sectors ==
  <<Sector("Layer 1s", 24, 18200,
           <<Asset("BTC", 12, 1250000), Asset("ETH", 29, 450000)>>),
    Sector("DeFi", -11, 4800,
           <<Asset("UNI", -8, 8900), Asset("AAVE", -21, 1500)>>),
    Sector("NFT / Gaming", 6, 980,
           <<Asset("IMX", 18, 3400), Asset("APE", -3, 650)>>)>>

\* heatmap = [...]: value in tenths
heatmap ==
  <<HeatmapPoint("BTC", 12), HeatmapPoint("ETH", 29), HeatmapPoint("SOL", 38),
    HeatmapPoint("BNB", -7), HeatmapPoint("ARB", 11), HeatmapPoint("OP", 5)>>

\* market_overview_result with the last heatmap point left out
market_overview_without_op(now) ==
  OK([updatedAt |-> isoformat_z(now), sectors |-> sectors,
      heatmap |-> SubSeq(heatmap, 1, Len(heatmap) - 1)])

\* def market_overview(), utcnow() returning `now`
market_overview_result(now) ==
  OK([updatedAt |-> isoformat_z(now), sectors |-> sectors,
      heatmap |-> heatmap])

ReportSummary(id, title, period, createdAt) ==
  [id |-> id, title |-> title, period |-> period, createdAt |-> createdAt]

\* list_reports_result with the items ordered by createdAt, newest first
list_reports_newest_first(t1, t2) ==
  OK([items |->
        IF t2 > t1
        THEN <<ReportSummary("macro-brief", "Macro Brief: Rates + Liquidity",
                             "This Week", isoformat_z(t2)),
               ReportSummary("weekly-crypto-outlook", "Weekly Crypto Outlook",
                             "Week 46", isoformat_z(t1))>>
        ELSE <<ReportSummary("weekly-crypto-outlook", "Weekly Crypto Outlook",
                             "Week 46", isoformat_z(t1)),
               ReportSummary("macro-brief", "Macro Brief: Rates + Liquidity",
                             "This Week", isoformat_z(t2))>>])

\* def list_reports(), its two utcnow() calls returning t1 and then t2
list_reports_result(t1, t2) ==
  OK([items |->
        <<ReportSummary("weekly-crypto-outlook", "Weekly Crypto Outlook",
                        "Week 46", isoformat_z(t1)),
          ReportSummary("macro-brief", "Macro Brief: Rates + Liquidity",
                        "This Week", isoformat_z(t2))>>])

(***************************************************************************)
(* The server: each worker thread takes a request, runs the route's        *)
(* handler and sends what it returned.                                     *)
(***************************************************************************)
NoResult == [status |-> 0]

Idle == [pc |-> "idle", path |-> "", body |-> NoBody, result |-> NoResult]

\* the place of a dict no running call holds: its content is never read
Unbound == [f \in DOMAIN initial_response |-> label("<unbound>")]

\* Frame with one module-level dict that every call fills in
SharedFrame(w) == 1

\* The dict that `response = {...}` creates in the call worker w runs: one
\* per call.
Frame(w) == w

\* one of `requests` reaches worker w and is routed to its path's handler
Accept(w, requests) ==
  /\ conn[w].pc = "idle"
  /\ \E rq \in requests :
       conn' = [conn EXCEPT ![w] = [pc |-> "routed", path |-> rq.path,
                                   body |-> rq.body, result |-> NoResult]]
  /\ UNCHANGED <<environ, database, sys_modules, clock, response>>

\* worker w sends the result and is free again; the call's locals are gone
Return(w) ==
  /\ conn[w].pc = "done"
  /\ conn' = [conn EXCEPT ![w] = Idle]
  /\ UNCHANGED <<environ, database, sys_modules, clock, response>>

Routed(w, path) == conn[w].pc = "routed" /\ conn[w].path = path

Finish(w, result) ==
  conn' = [conn EXCEPT ![w].pc = "done", ![w].result = result]

read_root(w) ==
  /\ Routed(w, "/")
  /\ Finish(w, read_root_result)
  /\ UNCHANGED <<environ, database, sys_modules, clock, response>>

hello(w) ==
  /\ Routed(w, "/api/hello")
  /\ Finish(w, hello_result)
  /\ UNCHANGED <<environ, database, sys_modules, clock, response>>

market_overview(w) ==
  /\ Routed(w, "/api/market/overview")
  /\ \E now \in clock..MaxClock :
       /\ clock' = now
       /\ Finish(w, market_overview_result(now))
  /\ UNCHANGED <<environ, database, sys_modules, response>>

explain(w) ==
  /\ Routed(w, "/api/explain")
  /\ Finish(w, explain_result(ExplainRequest(conn[w].body)))
  /\ UNCHANGED <<environ, database, sys_modules, clock, response>>

list_reports(w) ==
  /\ Routed(w, "/api/reports")
  /\ \E t1 \in clock..MaxClock : \E t2 \in t1..MaxClock :
       /\ clock' = t2
       /\ Finish(w, list_reports_result(t1, t2))
  /\ UNCHANGED <<environ, database, sys_modules, response>>

\* test_database, lines 46-53: response = {...}
test_begin(w) ==
  /\ Routed(w, "/test")
  /\ response' = [response EXCEPT ![Frame(w)] = initial_response]
  /\ conn' = [conn EXCEPT ![w].pc = "import"]
  /\ UNCHANGED <<environ, database, sys_modules, clock>>

\* One piece of the try statement has run with outcome o: an exception no
\* except clause took leaves the handler (the server answers 500), else
\* the try block goes on at `next` or the statement is left.
AfterTry(w, o, next) ==
  /\ response' = [response EXCEPT ![Frame(w)] = o.response]
  /\ conn' = IF o.raised # NoError
             THEN [conn EXCEPT ![w].pc = "done",
                               ![w].result = HTTPException(500,
                                               "Internal Server Error")]
             ELSE [conn EXCEPT ![w].pc = IF o.more THEN next ELSE "env"]

\* test_database, line 56: from database import db
test_import(w) ==
  /\ conn[w].pc = "import"
  /\ AfterTry(w, except_clauses(import_db(response[Frame(w)], database)),
              "check")
  /\ sys_modules' = (sys_modules \/ database.kind # "import_raises")
  /\ UNCHANGED <<environ, database, clock>>

\* test_database, lines 58-62 and 69-70
test_check(w) ==
  /\ conn[w].pc = "check"
  /\ AfterTry(w, except_clauses(check_db(response[Frame(w)], database)),
              "list")
  /\ UNCHANGED <<environ, database, sys_modules, clock>>

\* test_database, lines 63-68
test_list(w) ==
  /\ conn[w].pc = "list"
  /\ AfterTry(w, except_clauses(list_collections(response[Frame(w)],
                                                 database)),
              "env")
  /\ UNCHANGED <<environ, database, sys_modules, clock>>

\* test_database, lines 77-81: the environment fields, return response
test_env(w) ==
  /\ conn[w].pc = "env"
  /\ LET r == env_fields(response[Frame(w)], environ) IN
       /\ conn' = [conn EXCEPT ![w].pc = "done", ![w].result = OK(r)]
       /\ response' = [response EXCEPT ![Frame(w)] = Unbound]
  /\ UNCHANGED <<environ, database, sys_modules, clock>>


(***************************************************************************)
(* The states of the outside world and the requests that are tried.        *)
(***************************************************************************)
Unset == [set |-> FALSE, value |-> <<>>]

SetTo(v) == [set |-> TRUE, value |-> v]

\* a variable is unset, set to the empty string, or set to a value
EnvValues == {Unset, SetTo(<<>>), SetTo(<<"m", "o", "n", "g", "o">>)}

Environs == [{"DATABASE_URL", "DATABASE_NAME"} -> EnvValues]

MsgLens == {0, 1, TRUNCATE - 1, TRUNCATE, TRUNCATE + 1, TRUNCATE + MaxExtra}

\* ImportError (ModuleNotFoundError included), or any other Exception
Errors == {[type |-> t, msg |-> Msg(n)] :
             t \in {"ImportError", "Exception"}, n \in MsgLens}

Db(kind, import_error, name, name_error, listing, list_error, names) ==
  [kind |-> kind, import_error |-> import_error,
   name |-> name, name_value |-> "glasswindow", name_error |-> name_error,
   listing |-> listing, list_error |-> list_error, names |-> names]

\* the import raises: no module `database`, no `db` in it, or a fault
\* while the module runs
ImportRaises(e) == Db("import_raises", e, "absent", NoError, "ok", NoError, <<>>)

\* database.db is None
NoneDb == Db("none", NoError, "absent", NoError, "ok", NoError, <<>>)

\* database.db is an object; reading db.name raises e
NameRaises(e) == Db("handle", NoError, "raises", e, "ok", NoError, <<>>)

\* database.db is an object with or without a name; the listing raises e
ListRaises(name, e) == Db("handle", NoError, name, NoError, "raises", e, <<>>)

\* database.db is an object with or without a name; the listing returns names
ListReturns(name, names) ==
  Db("handle", NoError, name, NoError, "ok", NoError, names)

\* n collection names, in ascending and in descending order
NameLists ==
  UNION {{[i \in 1..n |-> ToString(i)], [i \in 1..n |-> ToString(n + 1 - i)]} :
           n \in 0..MaxCollections}

Databases ==
  {ImportRaises(e) : e \in Errors} \cup {NoneDb}
    \cup {NameRaises(e) : e \in Errors}
    \cup {ListRaises(nm, e) : nm \in {"absent", "present"}, e \in Errors}
    \cup {ListReturns(nm, ns) : nm \in {"absent", "present"}, ns \in NameLists}

QueryChars == {" ", "\t", "a", "B"}

Strings(chars, n) == UNION {[1..k -> chars] : k \in 0..n}

Queries ==
  Strings(QueryChars, MaxQueryLen)
    \cup {<<"h", "i">>, <<"B", "T", "C", " ", "d", "i", "p">>}

Modes ==
  {BEGINNER, STYLE_BEGINNER, EXPERT, STYLE_EXPERT, <<>>,
   <<"B", "E", "G", "I", "N", "N", "E", "R">>,
   <<"b", "E", "g", "I", "n", "N", "e", "R">>,
   <<" ", "b", "e", "g", "i", "n", "n", "e", "r">>,
   <<"b", "e", "g", "i", "n", "n", "e", "r", "s">>,
   <<"n", "o", "v", "i", "c", "e">>}

Bodies(queries, modes) ==
  {[query |-> q, mode |-> m, has_mode |-> TRUE] : q \in queries, m \in modes}
    \cup {[query |-> q, mode |-> <<>>, has_mode |-> FALSE] : q \in queries}

ExplainBodies == Bodies(Queries, Modes)

\* the smaller sets the whole server is run with
ServerEnvirons ==
  {[DATABASE_URL |-> Unset, DATABASE_NAME |-> Unset],
   [DATABASE_URL |-> SetTo(<<>>), DATABASE_NAME |-> SetTo(<<"m", "o", "n", "g", "o">>)],
   [DATABASE_URL |-> SetTo(<<"m", "o", "n", "g", "o">>), DATABASE_NAME |-> Unset]}

ServerDatabases ==
  {ImportRaises([type |-> "ImportError", msg |-> Msg(1)]),
   ImportRaises([type |-> "Exception", msg |-> Msg(TRUNCATE + 1)]),
   NoneDb,
   NameRaises([type |-> "Exception", msg |-> Msg(1)]),
   ListRaises("present", [type |-> "Exception", msg |-> Msg(TRUNCATE + 1)]),
   ListReturns("present", [i \in 1..(LIMIT + 1) |-> ToString(i)])}

ServerBodies ==
  Bodies({<<"h", "i">>, <<" ", "a", "B", " ">>, <<" ", "a", "B", "a", "\t">>,
          <<"B", "T", "C", " ", "d", "i", "p">>},
         {<<"B", "E", "G", "I", "N", "N", "E", "R">>})

Request(path, body) == [path |-> path, body |-> body]

ExplainRequests == {Request("/api/explain", b) : b \in ExplainBodies}

TestRequests == {Request("/test", NoBody)}

ServerRequests ==
  {Request(p, NoBody) :
     p \in {"/", "/api/hello", "/test", "/api/market/overview",
            "/api/reports"}}
    \cup {Request("/api/explain", b) : b \in ServerBodies}

(***************************************************************************)
(* Specifications.                                                         *)
(***************************************************************************)
\* a fresh process in a given outside world
Started(envs, dbs) ==
  /\ environ \in envs
  /\ database \in dbs
  /\ sys_modules = FALSE
  /\ clock = 0
  /\ conn = [w \in Workers |-> Idle]
  /\ response = [w \in Workers |-> Unbound]

\* The whole server: both workers, every route.
Init == Started(ServerEnvirons, ServerDatabases)

Next ==
  \E w \in Workers :
    \/ Accept(w, ServerRequests)
    \/ read_root(w)
    \/ hello(w)
    \/ test_begin(w)
    \/ test_import(w)
    \/ test_check(w)
    \/ test_list(w)
    \/ test_env(w)
    \/ market_overview(w)
    \/ explain(w)
    \/ list_reports(w)
    \/ Return(w)

Spec == Init /\ [][Next]_vars

\* POST /api/explain alone, on every body of ExplainBodies.
InitExplain ==
  Started({[DATABASE_URL |-> Unset, DATABASE_NAME |-> Unset]}, {NoneDb})

NextExplain ==
  \/ Accept(1, ExplainRequests)
  \/ explain(1)
  \/ Return(1)

SpecExplain == InitExplain /\ [][NextExplain]_vars

\* GET /test alone, in every outside world of Environs and Databases.
InitTest == Started(Environs, Databases)

NextTest ==
  \/ Accept(1, TestRequests)
  \/ test_begin(1)
  \/ test_import(1)
  \/ test_check(1)
  \/ test_list(1)
  \/ test_env(1)
  \/ Return(1)

SpecTest == InitTest /\ [][NextTest]_vars


(***************************************************************************)
(* What the properties below talk about, stated without the handlers'      *)
(* own operators.                                                          *)
(***************************************************************************)
Done(w, path) == conn[w].pc = "done" /\ conn[w].path = path

Least(S) == CHOOSE i \in S : \A j \in S : i <= j

Greatest(S) == CHOOSE i \in S : \A j \in S : j <= i

Inked(q) == {i \in 1..Len(q) : q[i] \notin {" ", "\t", "\n"}}

\* the query without its leading and trailing whitespace
Trimmed(q) ==
  IF Inked(q) = {} THEN <<>> ELSE SubSeq(q, Least(Inked(q)), Greatest(Inked(q)))

\* the first min(n, Len(s)) elements of s
First(s, n) == [i \in 1..(IF Len(s) < n THEN Len(s) ELSE n) |-> s[i]]

SameLetter(a, b) ==
  a = b \/ \E k \in 1..Len(UPPERCASE) :
             {a, b} = {UPPERCASE[k], LOWERCASE[k]}

EqualIgnoringCase(s, t) ==
  Len(s) = Len(t) /\ \A i \in 1..Len(s) : SameLetter(s[i], t[i])

\* the mode a body asks for: "expert" when it names none
AskedMode(body) == IF body.has_mode THEN body.mode ELSE EXPERT

Capitalised(s) ==
  IF s = <<>> THEN s
  ELSE [i \in 1..Len(s) |->
          IF i = 1 /\ \E k \in 1..Len(LOWERCASE) : LOWERCASE[k] = s[1]
          THEN UPPERCASE[CHOOSE k \in 1..Len(LOWERCASE) : LOWERCASE[k] = s[1]]
          ELSE s[i]]

(***************************************************************************)
(* POST /api/explain, under SpecExplain.                                   *)
(***************************************************************************)
\* C1: a request whose trimmed query is shorter than 3 characters (empty
\* and whitespace-only queries included) is answered 400 with detail
\* "Query is too short" and no ExplainResponse, whatever its mode.
C1_ShortQueryRejected ==
  \A w \in Workers :
    (Done(w, "/api/explain") /\ Len(Trimmed(conn[w].body.query)) < 3)
      => /\ conn[w].result = [status |-> 400, detail |-> "Query is too short"]
         /\ "body" \notin DOMAIN conn[w].result

\* a padded query of 5 characters, 2 of them left by trimming, was rejected
C1_Witness ==
  \E w \in Workers :
    /\ Done(w, "/api/explain")
    /\ Len(conn[w].body.query) = 5
    /\ Len(Trimmed(conn[w].body.query)) = 2
    /\ conn[w].body.has_mode
    /\ conn[w].result.status = 400

\* C2: a request whose trimmed query has 3 characters or more is answered
\* 200 with confidence 0.72, the same 4 key points and the same 3 sources,
\* in the same order, whatever its mode.
C2_LongQueryAnswered ==
  \A w \in Workers :
    (Done(w, "/api/explain") /\ Len(Trimmed(conn[w].body.query)) >= 3)
      => /\ conn[w].result.status = 200
         /\ conn[w].result.body.confidence = 72
         /\ Len(conn[w].result.body.key_points) = 4
         /\ Len(conn[w].result.body.sources) = 3
         /\ conn[w].result.body.key_points =
              <<"Price action concentrated around key liquidity zones",
                "Funding rates normalizing after recent spikes",
                "Net exchange outflows suggest accumulation",
                "Derivatives skew implies moderate upside bias">>
         /\ conn[w].result.body.sources =
              <<"CeFi spot feeds", "On-chain exchange flows",
                "Derivatives funding + OI">>

\* a padded query that trims to exactly 3 characters was answered 200
C2_Witness ==
  \E w \in Workers :
    /\ Done(w, "/api/explain")
    /\ Len(conn[w].body.query) = 5
    /\ Len(Trimmed(conn[w].body.query)) = 3
    /\ conn[w].result.status = 200

\* C3: in an accepted request's response, mode is "beginner" when the
\* request's mode equals "beginner" ignoring case and "expert" for every
\* other mode, an omitted one included; it is never a third value.
C3_ModeEchoed ==
  \A w \in Workers :
    (Done(w, "/api/explain") /\ conn[w].result.status = 200)
      => /\ conn[w].result.body.mode =
              IF EqualIgnoringCase(AskedMode(conn[w].body), BEGINNER)
              THEN BEGINNER ELSE EXPERT
         /\ conn[w].result.body.mode \in {BEGINNER, EXPERT}

\* "bEgInNeR" was answered with mode "beginner"
C3_Witness ==
  \E w \in Workers :
    /\ Done(w, "/api/explain")
    /\ conn[w].result.status = 200
    /\ conn[w].body.has_mode
    /\ conn[w].body.mode = <<"b", "E", "g", "I", "n", "N", "e", "R">>
    /\ conn[w].result.body.mode = BEGINNER

\* C4: in an accepted request's response, summary is the style label (the
\* capitalised response mode, "Beginner" or "Expert"), then " view: ", then
\* the trimmed query, then " likely driven by liquidity rotation, macro
\* risk appetite, and exchange flow dynamics."
C4_SummaryTemplate ==
  \A w \in Workers :
    (Done(w, "/api/explain") /\ conn[w].result.status = 200)
      => /\ conn[w].result.body.summary =
              Capitalised(conn[w].result.body.mode) \o VIEW
                \o Trimmed(conn[w].body.query) \o LIKELY
         /\ Capitalised(conn[w].result.body.mode)
              \in {STYLE_BEGINNER, STYLE_EXPERT}

\* a beginner request with a padded query was answered
C4_Witness ==
  \E w \in Workers :
    /\ Done(w, "/api/explain")
    /\ conn[w].result.status = 200
    /\ conn[w].body.query # Trimmed(conn[w].body.query)
    /\ conn[w].result.body.mode = BEGINNER
    /\ SubSeq(conn[w].result.body.summary, 1, 8) = STYLE_BEGINNER


(***************************************************************************)
(* GET /test, under SpecTest.                                              *)
(***************************************************************************)
\* the handle is there, reading its name did not raise, the listing returned
ListingSucceeded ==
  database.kind = "handle" /\ database.name # "raises"
    /\ database.listing = "ok"

\* how a fault that leaves the try block reads in the response
OuterFault(e) ==
  IF e.type = "ImportError"
  THEN <<"[x] Database module not found (run enable-database first)">>
  ELSE <<"[x] Error: ">> \o First(e.msg, 50)

\* the database field for each state of the outside world
Rendered(db) ==
  CASE db.kind = "import_raises" -> OuterFault(db.import_error)
    [] db.kind = "none" -> <<"[!]  Available but not initialized">>
    [] db.kind = "handle" /\ db.name = "raises" -> OuterFault(db.name_error)
    [] db.kind = "handle" /\ db.name # "raises" /\ db.listing = "raises" ->
         <<"[!]  Connected but Error: ">> \o First(db.list_error.msg, 50)
    [] OTHER -> <<"[ok] Connected & Working">>

\* C5: GET /test is answered 200 in every state of the database handle
\* (module missing, import raising another fault, handle None, reading the
\* name raising, the listing raising, the listing succeeding): no exception
\* leaves the handler, and the answer is the diagnostic record with the
\* fault rendered into its database field.
C5_TestNeverFails ==
  \A w \in Workers :
    Done(w, "/test")
      => /\ conn[w].result.status = 200
         /\ DOMAIN conn[w].result.body =
              {"backend", "database", "database_url", "database_name",
               "connection_status", "collections"}
         /\ conn[w].result.body.backend = <<"[ok] Running">>
         /\ conn[w].result.body.database = Rendered(database)

\* the listing raised an exception with a message longer than 50
\* characters, and the request was answered 200
C5_Witness ==
  \E w \in Workers :
    /\ Done(w, "/test")
    /\ database.kind = "handle"
    /\ database.name # "raises"
    /\ database.listing = "raises"
    /\ Len(database.list_error.msg) > 50
    /\ conn[w].result.status = 200
    /\ Len(conn[w].result.body.database) = 51

\* C6: collections holds at most 10 names; it is the first min(10, n) names
\* the listing returned, in their order, exactly when the handle is not
\* None and the listing succeeds (database is "Connected & Working"), and
\* it is empty in every other case.
C6_CollectionsLimited ==
  \A w \in Workers :
    Done(w, "/test")
      => /\ Len(conn[w].result.body.collections) <= 10
         /\ conn[w].result.body.collections =
              IF ListingSucceeded THEN First(database.names, 10) ELSE <<>>
         /\ ListingSucceeded <=>
              conn[w].result.body.database = <<"[ok] Connected & Working">>

\* a listing of more than 10 names, in descending order, was cut to 10
C6_Witness ==
  \E w \in Workers :
    /\ Done(w, "/test")
    /\ ListingSucceeded
    /\ Len(database.names) > 10
    /\ database.names[1] = ToString(Len(database.names))
    /\ Len(conn[w].result.body.collections) = 10
    /\ conn[w].result.body.collections[10] = database.names[10]

\* C7 as stated: database_url is "Set" exactly when DATABASE_URL is set and
\* "Not Set" otherwise, and likewise database_name for DATABASE_NAME,
\* whatever the state of the database handle.
C7_SetExactlyWhenPresent ==
  \A w \in Workers :
    Done(w, "/test")
      => \A f \in {<<"database_url", "DATABASE_URL">>,
                   <<"database_name", "DATABASE_NAME">>} :
           conn[w].result.body[f[1]] =
             IF environ[f[2]].set THEN <<"[ok] Set">> ELSE <<"[x] Not Set">>

\* C7 as amended: database_url is "Set" exactly when DATABASE_URL is set to
\* a non-empty string and "Not Set" otherwise (unset, or set to the empty
\* string), and likewise database_name for DATABASE_NAME, whatever the
\* state of the database handle; the values written earlier from the handle
\* never appear.
C7_SetExactlyWhenNonEmpty ==
  \A w \in Workers :
    Done(w, "/test")
      => \A f \in {<<"database_url", "DATABASE_URL">>,
                   <<"database_name", "DATABASE_NAME">>} :
           conn[w].result.body[f[1]] =
             IF environ[f[2]].set /\ Len(environ[f[2]].value) > 0
             THEN <<"[ok] Set">> ELSE <<"[x] Not Set">>

\* DATABASE_URL is set to the empty string and DATABASE_NAME to a value,
\* the handle has a name and lists its collections, and the answer says
\* "Not Set" and "Set"
C7_Witness ==
  \E w \in Workers :
    /\ Done(w, "/test")
    /\ environ["DATABASE_URL"] = SetTo(<<>>)
    /\ environ["DATABASE_NAME"].set /\ environ["DATABASE_NAME"].value # <<>>
    /\ ListingSucceeded /\ database.name = "present"
    /\ conn[w].result.body.database_url = <<"[x] Not Set">>
    /\ conn[w].result.body.database_name = <<"[ok] Set">>


(***************************************************************************)
(* The whole server, under Spec.                                           *)
(***************************************************************************)
\* a result with its timestamp fields blanked
Timeless(path, result) ==
  CASE path = "/api/market/overview" ->
         [result EXCEPT !.body.updatedAt = "-"]
    [] path = "/api/reports" ->
         [result EXCEPT !.body.items =
            [i \in 1..Len(result.body.items) |->
               [result.body.items[i] EXCEPT !.createdAt = "-"]]]
    [] OTHER -> result

\* what a request gets when it is the only one a fresh process handles,
\* at instant 0
Alone(path, body) ==
  CASE path = "/" -> read_root_result
    [] path = "/api/hello" -> hello_result
    [] path = "/test" -> test_database_result(environ, database)
    [] path = "/api/market/overview" -> market_overview_result(0)
    [] path = "/api/explain" -> explain_result(ExplainRequest(body))
    [] path = "/api/reports" -> list_reports_result(0, 0)

\* C8: in any sequence or interleaving of requests, the response to each
\* request is, apart from its timestamps, the one the same request gets
\* alone from a fresh process with the same environment variables and the
\* same database handle.
C8_RequestsIndependent ==
  \A w \in Workers :
    conn[w].pc = "done"
      => Timeless(conn[w].path, conn[w].result)
           = Timeless(conn[w].path, Alone(conn[w].path, conn[w].body))

\* a GET /test whose listing succeeded is answered while the other worker
\* is in the middle of its own GET /test, the module already imported
C8_Witness ==
  \E w \in Workers : \E v \in Workers \ {w} :
    /\ Done(w, "/test")
    /\ conn[w].result.body.collections # <<>>
    /\ conn[v].pc \in {"import", "check", "list", "env"}
    /\ sys_modules

\* C9: GET /api/market/overview always returns 3 sectors of 2 assets each
\* and 6 heatmap points, and the same payload on every call apart from
\* updatedAt.
C9_OverviewFixed ==
  \A w \in Workers :
    Done(w, "/api/market/overview")
      => /\ conn[w].result.status = 200
         /\ Len(conn[w].result.body.sectors) = 3
         /\ Len(conn[w].result.body.heatmap) = 6
         /\ \A i \in 1..Len(conn[w].result.body.sectors) :
              Len(conn[w].result.body.sectors[i].assets) = 2
         /\ \A v \in Workers :
              Done(v, "/api/market/overview")
                => [conn[v].result.body EXCEPT !.updatedAt = "-"]
                     = [conn[w].result.body EXCEPT !.updatedAt = "-"]

\* two calls were answered at different instants
C9_Witness ==
  \E w \in Workers : \E v \in Workers \ {w} :
    /\ Done(w, "/api/market/overview")
    /\ Done(v, "/api/market/overview")
    /\ conn[w].result.body.updatedAt # conn[v].result.body.updatedAt

\* C10: GET /api/reports always returns 2 items, "weekly-crypto-outlook"
\* and then "macro-brief", and the same payload on every call apart from
\* the createdAt fields.
C10_ReportsFixed ==
  \A w \in Workers :
    Done(w, "/api/reports")
      => /\ conn[w].result.status = 200
         /\ Len(conn[w].result.body.items) = 2
         /\ conn[w].result.body.items[1].id = "weekly-crypto-outlook"
         /\ conn[w].result.body.items[2].id = "macro-brief"
         /\ \A v \in Workers :
              Done(v, "/api/reports")
                => Timeless("/api/reports", conn[v].result)
                     = Timeless("/api/reports", conn[w].result)

\* two calls were answered, one of them with two different createdAt
C10_Witness ==
  \E w \in Workers : \E v \in Workers \ {w} :
    /\ Done(w, "/api/reports")
    /\ Done(v, "/api/reports")
    /\ conn[w].result.body.items[1].createdAt
         # conn[w].result.body.items[2].createdAt
    /\ conn[w].result # conn[v].result


====
